---- MODULE Spec2Model ----
(***************************************************************************)
(* Model of moonlight/models/base/glyph_patches.py: the patch dimension    *)
(* reader and its memoization, the example parser with its shift and       *)
(* rotation augmentation, the serving receiver and the train/eval wiring.  *)
(***************************************************************************)
EXTENDS Integers, Sequences, FiniteSets, TLC

VARIABLES
  files,         \* file_io.get_matching_files(FLAGS.train_input_patches): a sequence of files, each a sequence of records
  cache,         \* the memoized result of read_patch_dimensions (Unset before the first store)
  guard,         \* the caller inside the memoized call, or NoHolder
  pc,            \* per caller: position in its call of read_patch_dimensions
  ret,           \* per caller: the value its current call holds / has returned
  served,        \* per caller: whether its current call was answered by a scan or by the cache
  scans,         \* number of filesystem scans started so far (history)
  stores,        \* number of times the cache was populated (history)
  first_result,  \* the value returned by the first call that returned (history)
  aborted,       \* an exception has propagated out of this module
  single_thread, \* the callers run in one thread, one call at a time
  FLAGS,         \* the command line flags, constant during a run
  weight_table,  \* label_weights.weights_from_labels as a table from label to weight
  wiring,        \* what train_and_evaluate handed to tf.estimator.train_and_evaluate
  stage,         \* "idle", "read" (a record is waiting for the parser) or "emitted"
  pipeline,      \* which input produced the current record: "train", "eval", "serving" or "shift"
  current_record, \* the current input record
  emitted        \* what the parser or the serving receiver made of it

dimVars == <<files, cache, guard, pc, ret, served, scans, stores, first_result, aborted, single_thread>>

pipeVars == <<FLAGS, weight_table, wiring, stage, pipeline, current_record, emitted>>

vars == <<files, cache, guard, pc, ret, served, scans, stores, first_result, aborted,
          single_thread, FLAGS, weight_table, wiring, stage, pipeline, current_record, emitted>>

-----------------------------------------------------------------------------
(* Bounds of the model.                                                    *)

\* SpecScan: at most this many files match the training glob
MaxFiles == 2
\* SpecScan: at most this many records in all matching files together
MaxRecords == 2
\* SpecMemo: at most this many files match the training glob
MemoMaxFiles == 1
\* SpecMemo: at most this many records in all matching files together
MemoMaxRecords == 1
\* cap on the scan counter
MaxScans == 2

-----------------------------------------------------------------------------
(* Serialized records as the dimension scan sees them: whether the bytes   *)
(* parse as a tf.train.Example, and the int64 lists of its 'height' and    *)
(* 'width' features (empty when the feature is absent).                    *)

Unparsable == [parses |-> FALSE, height |-> <<>>, width |-> <<>>]
NoHeight   == [parses |-> TRUE, height |-> <<>>, width |-> <<2>>]
NoWidth    == [parses |-> TRUE, height |-> <<1>>, width |-> <<>>]
RecordA    == [parses |-> TRUE, height |-> <<1>>, width |-> <<2>>]
RecordB    == [parses |-> TRUE, height |-> <<2, 1>>, width |-> <<1>>]

Records == {Unparsable, NoHeight, NoWidth, RecordA, RecordB}

SeqsUpTo(S, n) == UNION {[1..k -> S] : k \in 0..n}

RECURSIVE SumSeq(_)
SumSeq(s) == IF s = <<>> THEN 0 ELSE Head(s) + SumSeq(Tail(s))

\* the records recs cut into consecutive files of the given sizes
RECURSIVE Split(_, _)
Split(recs, sizes) ==
  IF sizes = <<>> THEN <<>>
  ELSE <<SubSeq(recs, 1, Head(sizes))>>
         \o Split(SubSeq(recs, Head(sizes) + 1, Len(recs)), Tail(sizes))

\* every list of at most nf files holding at most nr records together
FileSystems(nf, nr) ==
  {Split(recs, sizes) : <<recs, sizes>> \in
     {rs \in SeqsUpTo(Records, nr) \X SeqsUpTo(0..nr, nf) : SumSeq(rs[2]) = Len(rs[1])}}

\* all records of the matching files in scan order
RECURSIVE Flatten(_)
Flatten(fs) == IF fs = <<>> THEN <<>> ELSE Head(fs) \o Flatten(Tail(fs))

-----------------------------------------------------------------------------
(* Values a call of read_patch_dimensions can produce.                     *)

Unset        == [kind |-> "unset", height |-> 0, width |-> 0]
NoneValue    == [kind |-> "None", height |-> 0, width |-> 0]
Tuple(h, w)  == [kind |-> "tuple", height |-> h, width |-> w]
Raised(e)    == [kind |-> e, height |-> 0, width |-> 0]
Errors       == {"DecodeError", "IndexError", "TypeError"}
IsRaise(v)   == v.kind \in Errors

\* body of the inner loop: the record is parsed and returned from, or raises
parse_first_example(record) ==
  IF ~record.parses THEN Raised("DecodeError")
  ELSE IF record.height = <<>> THEN Raised("IndexError")
  ELSE IF record.width = <<>> THEN Raised("IndexError")
  ELSE Tuple(record.height[1], record.width[1])

\* a scan that gives up at the first empty file
RECURSIVE read_patch_dimensions_no_skip(_)
read_patch_dimensions_no_skip(fs) ==
  IF fs = <<>> THEN NoneValue
  ELSE IF Head(fs) = <<>> THEN NoneValue
  ELSE parse_first_example(Head(fs)[1])

\* the undecorated function body: the nested loops over files and records
RECURSIVE read_patch_dimensions(_)
read_patch_dimensions(fs) ==
  IF fs = <<>> THEN NoneValue
  ELSE IF Head(fs) = <<>> THEN read_patch_dimensions(Tail(fs))
  ELSE parse_first_example(Head(fs)[1])

-----------------------------------------------------------------------------
(* The callers of read_patch_dimensions and the memoizing decorator.       *)

Callers   == {"input_fn", "serving_fn", "create_patch_feature_column"}
\* callers that unpack the result into (patch_height, patch_width)
Unpackers == {"input_fn", "serving_fn"}
NoHolder  == "nobody"

\* the function without its decorator
Undecorated == FALSE
\* read_patch_dimensions is wrapped by memoize.MemoizedFunction
Memoized == TRUE

\* concurrent first calls enter one at a time
Unguarded(g) == TRUE
GuardFree(g) == g = NoHolder

\* the cache answers once it holds a result
CacheHit(c) == c # Unset

OthersIdle(p) == \A q \in Callers \ {p} : pc[q] = "idle"

Call(p) ==
  /\ ~aborted
  /\ pc[p] = "idle"
  /\ single_thread => OthersIdle(p)
  /\ pc' = [pc EXCEPT ![p] = "waiting"]
  /\ UNCHANGED <<files, cache, guard, ret, served, scans, stores, first_result, aborted, single_thread, pipeVars>>

Acquire(p) ==
  /\ ~aborted
  /\ pc[p] = "waiting"
  /\ GuardFree(guard)
  /\ guard' = p
  /\ pc' = [pc EXCEPT ![p] = "lookup"]
  /\ UNCHANGED <<files, cache, ret, served, scans, stores, first_result, aborted, single_thread, pipeVars>>

Lookup(p) ==
  /\ ~aborted
  /\ pc[p] = "lookup"
  /\ IF Memoized /\ CacheHit(cache)
     THEN /\ ret' = [ret EXCEPT ![p] = cache]
          /\ served' = [served EXCEPT ![p] = "cache"]
          /\ guard' = NoHolder
          /\ pc' = [pc EXCEPT ![p] = "returned"]
          /\ first_result' = IF first_result = Unset THEN cache ELSE first_result
     ELSE /\ pc' = [pc EXCEPT ![p] = "scanning"]
          /\ UNCHANGED <<ret, served, guard, first_result>>
  /\ UNCHANGED <<files, cache, scans, stores, aborted, single_thread, pipeVars>>

\* the function body runs on the files as they are now.  Nothing in the
\* module catches what FromString or value[0] raise: the exception leaves
\* the call, nothing is stored, and graph construction ends there.
Scan(p) ==
  /\ ~aborted
  /\ pc[p] = "scanning"
  /\ scans < MaxScans
  /\ scans' = scans + 1
  /\ LET r == read_patch_dimensions(files) IN
       /\ ret' = [ret EXCEPT ![p] = r]
       /\ served' = [served EXCEPT ![p] = "scan"]
       /\ IF IsRaise(r)
          THEN /\ pc' = [pc EXCEPT ![p] = "raised"]
               /\ guard' = NoHolder
               /\ aborted' = TRUE
          ELSE /\ pc' = [pc EXCEPT ![p] = "storing"]
               /\ UNCHANGED <<guard, aborted>>
  /\ UNCHANGED <<files, cache, stores, first_result, single_thread, pipeVars>>

Store(p) ==
  /\ ~aborted
  /\ pc[p] = "storing"
  /\ IF Memoized
     THEN cache' = ret[p] /\ stores' = stores + 1
     ELSE UNCHANGED <<cache, stores>>
  /\ guard' = NoHolder
  /\ pc' = [pc EXCEPT ![p] = "returned"]
  /\ first_result' = IF first_result = Unset THEN ret[p] ELSE first_result
  /\ UNCHANGED <<files, ret, served, scans, aborted, single_thread, pipeVars>>

\* the caller uses the value: input_fn and serving_fn unpack it into
\* (patch_height, patch_width), which raises TypeError on None;
\* create_patch_feature_column passes it on as the shape
Continue(p) ==
  /\ ~aborted
  /\ pc[p] = "returned"
  /\ IF ret[p] = NoneValue /\ p \in Unpackers
     THEN /\ pc' = [pc EXCEPT ![p] = "raised"]
          /\ ret' = [ret EXCEPT ![p] = Raised("TypeError")]
          /\ aborted' = TRUE
          /\ UNCHANGED served
     ELSE /\ pc' = [pc EXCEPT ![p] = "idle"]
          /\ ret' = [ret EXCEPT ![p] = Unset]
          /\ served' = [served EXCEPT ![p] = "none"]
          /\ UNCHANGED aborted
  /\ UNCHANGED <<files, cache, guard, scans, stores, first_result, single_thread, pipeVars>>

\* the dataset on disk is rewritten while the process runs
ChangeFiles ==
  /\ ~aborted
  /\ files' \in FileSystems(MemoMaxFiles, MemoMaxRecords) \ {files}
  /\ UNCHANGED <<cache, guard, pc, ret, served, scans, stores, first_result, aborted, single_thread, pipeVars>>

-----------------------------------------------------------------------------
(* float32 scaled down: a value is a whole number of units of 1/Unit, and   *)
(* is representable when it has at most MantBits significant bits.  Every  *)
(* arithmetic result is rounded to the nearest representable value, ties   *)
(* to the even mantissa.                                                   *)

\* significant bits of a float
MantBits == 2
\* the finest pixel values lie this many bits below the spacing of floats just under 1.0
ExtraBits == 1

RECURSIVE Pow2(_)
Pow2(n) == IF n = 0 THEN 1 ELSE 2 * Pow2(n - 1)

\* 1.0
Unit == Pow2(MantBits + ExtraBits)

\* the spacing of the representable values around n >= 0
RECURSIVE Ulp(_, _)
Ulp(n, q) == IF n < Pow2(MantBits) * q THEN q ELSE Ulp(n, 2 * q)

Round(n) ==
  LET q == Ulp(n, 1)
      m == n \div q
      rem == n % q
  IN  IF 2 * rem > q \/ (2 * rem = q /\ m % 2 = 1) THEN (m + 1) * q ELSE m * q

FSub(a, b) == Round(a - b)
FMul(a, b) == Round((a * b) \div Unit)

\* the spacing of floats in [0.5, 1.0)
SpacingBelowOne == Pow2(ExtraBits)

-----------------------------------------------------------------------------
(* Patches: a sequence of H rows of W pixel values, background 1.0.        *)

PixelSamples == {0, 1, 3, Unit - SpacingBelowOne, Unit}

PatchesOf(h, w) == [1..h -> [1..w -> PixelSamples]]

Shape(patch) == <<Len(patch), Len(patch[1])>>

\* the (H, W) pairs the dimension records above can yield
RecordShapes == {<<1, 2>>, <<2, 1>>}

\* shapes for the shift functions on their own
ShiftShapes == {<<1, 1>>, <<1, 2>>, <<1, 3>>, <<2, 1>>, <<2, 2>>}

\* the result of a rotation by a non-zero angle is left uninterpreted
Unknown == <<>>

\* 1. - patch
Invert(patch) ==
  [i \in 1..Len(patch) |-> [j \in 1..Len(patch[i]) |-> FSub(Unit, patch[i][j])]]

\* tf.contrib.image.rotate(image, angle, interpolation='BILINEAR'): the
\* identity transform at angle 0, where every sample point is a pixel centre
rotate(image, angle) == IF angle = 0 THEN image ELSE Unknown

-----------------------------------------------------------------------------
(* Flags.  Probabilities and uniform draws are whole numbers of units of   *)
(* 1/RandSteps, so a draw is one of 0 .. RandSteps-1.                      *)

\* resolution of the uniform draws
RandSteps == 4

DefaultMaxRotationDegrees == 2
DefaultEvalThrottleSecs == 60
DefaultTrainMaxSteps == 100000

Draws == 0..(RandSteps - 1)

ShiftProbabilities == {-RandSteps, 0, 1, RandSteps \div 2, RandSteps, 2 * RandSteps}

DefaultFlags ==
  [use_included_label_weight |-> FALSE,
   augmentation_x_shift_probability |-> RandSteps \div 2,
   augmentation_max_rotation_degrees |-> DefaultMaxRotationDegrees,
   eval_throttle_secs |-> DefaultEvalThrottleSecs,
   train_max_steps |-> DefaultTrainMaxSteps]

Min(a, b) == IF a < b THEN a ELSE b

-----------------------------------------------------------------------------
(* The augmentation.                                                       *)

\* shift left that fills the freed column with black
_shift_left_zero_fill(patch) ==
  [i \in 1..Len(patch) |-> SubSeq(patch[i], 2, Len(patch[i])) \o <<0>>]

\* tf.concat([patch[:, 1:], patch[:, -1:]], axis=1)
_shift_left(patch) ==
  [i \in 1..Len(patch) |->
     SubSeq(patch[i], 2, Len(patch[i])) \o SubSeq(patch[i], Len(patch[i]), Len(patch[i]))]

\* tf.concat([patch[:, :1], patch[:, :-1]], axis=1)
_shift_right(patch) ==
  [i \in 1..Len(patch) |->
     SubSeq(patch[i], 1, 1) \o SubSeq(patch[i], 1, Len(patch[i]) - 1)]

\* the shift without the min(1., ...) on the flag
_augment_shift_unclamped(patch, rand) ==
  LET shift_prob == FLAGS.augmentation_x_shift_probability IN
    IF 2 * rand < shift_prob THEN [branch |-> "shift_left", patch |-> _shift_left(patch)]
    ELSE IF rand < shift_prob THEN [branch |-> "shift_right", patch |-> _shift_right(patch)]
    ELSE [branch |-> "identity", patch |-> patch]

\* the shift that also fires when the draw equals the threshold
_augment_shift_inclusive(patch, rand) ==
  LET shift_prob == Min(RandSteps, FLAGS.augmentation_x_shift_probability) IN
    IF 2 * rand <= shift_prob THEN [branch |-> "shift_left", patch |-> _shift_left(patch)]
    ELSE IF rand <= shift_prob THEN [branch |-> "shift_right", patch |-> _shift_right(patch)]
    ELSE [branch |-> "identity", patch |-> patch]

\* rand is the draw of tf.random_uniform(()); rand < shift_prob / 2 is
\* 2 * rand < shift_prob
_augment_shift(patch, rand) ==
  LET shift_prob == Min(RandSteps, FLAGS.augmentation_x_shift_probability) IN
    IF 2 * rand < shift_prob THEN [branch |-> "shift_left", patch |-> _shift_left(patch)]
    ELSE IF rand < shift_prob THEN [branch |-> "shift_right", patch |-> _shift_right(patch)]
    ELSE [branch |-> "identity", patch |-> patch]

\* u is the unit draw behind tf.random_uniform((), minval=-max, maxval=max):
\* rotation = minval + u * (maxval - minval), here in units of 1/RandSteps
\* of a degree (math.radians only rescales, and maps 0 to 0)
_augment_rotation(patch, u) ==
  LET max_rotation == FLAGS.augmentation_max_rotation_degrees
      rotation == (0 - max_rotation) * RandSteps + u * (2 * max_rotation)
  IN  [rotation |-> rotation, patch |-> Invert(rotate(Invert(patch), rotation))]

_augment(patch, rand, u) ==
  LET shifted == _augment_shift(patch, rand)
      rotated == _augment_rotation(shifted.patch, u)
  IN  [branch |-> shifted.branch, shifted |-> shifted.patch,
       rotation |-> rotated.rotation, patch |-> rotated.patch]

-----------------------------------------------------------------------------
(* Labeled examples and the parser of input_fn.                            *)

Labels == {0, 1}

\* 1.0 and 1.5
WeightSamples == {Unit, Unit + Unit \div 2}

\* the 'label_weight' float list of an example: absent, or one value
LabelWeightLists == {<<>>} \cup {<<w>> : w \in WeightSamples}

Examples ==
  [patch : UNION {PatchesOf(sh[1], sh[2]) : sh \in RecordShapes},
   label : Labels,
   label_weight : LabelWeightLists]

NoRecord == [patch |-> <<>>, label |-> 0, label_weight |-> <<>>]

NoOutput ==
  [status |-> "none", branch |-> "none", rand |-> 0, rotation |-> 0,
   shifted |-> <<>>, patch |-> <<>>, weight |-> 0, label |-> 0]

ParseError == [NoOutput EXCEPT !.status = "parse_error"]

\* tf.FixedLenFeature((patch_height, patch_width), tf.float32) accepts the patch
FitsDimensions(patch) == Shape(patch) = <<cache.height, cache.width>>

\* a parser that multiplies by label_weight whenever the example carries one
parser_always_weighted(example, rand, u) ==
  IF ~FitsDimensions(example.patch)
       \/ (FLAGS.use_included_label_weight /\ example.label_weight = <<>>)
  THEN ParseError
  ELSE LET label == example.label
           weight == weight_table[label]
           augmented == _augment(example.patch, rand, u)
       IN  [status |-> "ok", branch |-> augmented.branch, rand |-> rand,
            rotation |-> augmented.rotation, shifted |-> augmented.shifted,
            patch |-> augmented.patch,
            weight |-> IF example.label_weight # <<>>
                       THEN FMul(weight, example.label_weight[1]) ELSE weight,
            label |-> label]

parser(example, rand, u) ==
  IF ~FitsDimensions(example.patch)
       \/ (FLAGS.use_included_label_weight /\ example.label_weight = <<>>)
  THEN ParseError
  ELSE LET label == example.label
           weight == weight_table[label]
           augmented == _augment(example.patch, rand, u)
       IN  [status |-> "ok", branch |-> augmented.branch, rand |-> rand,
            rotation |-> augmented.rotation, shifted |-> augmented.shifted,
            patch |-> augmented.patch,
            weight |-> IF FLAGS.use_included_label_weight
                       THEN FMul(weight, example.label_weight[1]) ELSE weight,
            label |-> label]

-----------------------------------------------------------------------------
(* train_and_evaluate, the two input pipelines and the serving receiver.   *)

StepCap(n) == [is_none |-> FALSE, value |-> n]
NoStepCap  == [is_none |-> TRUE, value |-> 0]

NotWired ==
  [wired |-> FALSE, train_input |-> "", max_steps |-> NoStepCap, eval_input |-> "",
   start_delay_secs |-> 0, throttle_secs |-> 0, exporter |-> ""]

train_and_evaluate ==
  /\ ~wiring.wired
  /\ stage = "idle"
  /\ wiring' = [wired |-> TRUE,
                train_input |-> "train_input_patches",
                max_steps |-> StepCap(FLAGS.train_max_steps),
                eval_input |-> "eval_input_patches",
                start_delay_secs |-> 0,
                throttle_secs |-> FLAGS.eval_throttle_secs,
                exporter |-> "serving_fn"]
  /\ UNCHANGED <<dimVars, FLAGS, weight_table, stage, pipeline, current_record, emitted>>

\* the dataset of input_fn(FLAGS.train_input_patches) or of
\* input_fn(FLAGS.eval_input_patches) yields its next record
ReadRecord(pl) ==
  /\ wiring.wired
  /\ stage = "idle"
  /\ \/ pl = "train" /\ wiring.train_input = "train_input_patches"
     \/ pl = "eval" /\ wiring.eval_input = "eval_input_patches"
  /\ pipeline' = pl
  /\ current_record' \in Examples
  /\ stage' = "read"
  /\ UNCHANGED <<dimVars, FLAGS, weight_table, wiring, emitted>>

\* dataset.map(parser) on the record, with the two random draws
Parser ==
  /\ stage = "read"
  /\ \E rand \in Draws, u \in Draws : emitted' = parser(current_record, rand, u)
  /\ stage' = "emitted"
  /\ UNCHANGED <<dimVars, FLAGS, weight_table, wiring, pipeline, current_record>>

\* the exported model receives a request through one of the alternatives of
\* the ServingInputReceiver: a serialized example, or the patch itself
serving_fn(alternative) ==
  /\ wiring.wired /\ wiring.exporter = "serving_fn"
  /\ stage = "idle"
  /\ alternative \in {"example", "patch"}
  /\ pipeline' = "serving"
  /\ \E patch \in UNION {PatchesOf(sh[1], sh[2]) : sh \in RecordShapes} :
       /\ current_record' = [NoRecord EXCEPT !.patch = patch]
       /\ emitted' = IF FitsDimensions(patch)
                     THEN [NoOutput EXCEPT !.status = "ok", !.shifted = patch, !.patch = patch]
                     ELSE ParseError
  /\ stage' = "emitted"
  /\ UNCHANGED <<dimVars, FLAGS, weight_table, wiring>>

\* _augment_shift applied to a patch on its own
AugmentShift ==
  /\ stage = "idle"
  /\ pipeline' = "shift"
  /\ \E patch \in UNION {PatchesOf(sh[1], sh[2]) : sh \in ShiftShapes}, rand \in Draws :
       /\ current_record' = [NoRecord EXCEPT !.patch = patch]
       /\ LET shifted == _augment_shift(patch, rand) IN
            emitted' = [NoOutput EXCEPT !.status = "ok", !.branch = shifted.branch,
                                        !.rand = rand, !.shifted = shifted.patch,
                                        !.patch = shifted.patch]
  /\ stage' = "emitted"
  /\ UNCHANGED <<dimVars, FLAGS, weight_table, wiring>>

\* the batching takes the emitted example; the next record can be read
Consume ==
  /\ stage = "emitted"
  /\ stage' = "idle"
  /\ pipeline' = "none"
  /\ current_record' = NoRecord
  /\ emitted' = NoOutput
  /\ UNCHANGED <<dimVars, FLAGS, weight_table, wiring>>

InitPipelineIdle ==
  /\ wiring = NotWired
  /\ stage = "idle"
  /\ pipeline = "none"
  /\ current_record = NoRecord
  /\ emitted = NoOutput

InitCallers ==
  /\ cache = Unset
  /\ guard = NoHolder
  /\ pc = [p \in Callers |-> "idle"]
  /\ ret = [p \in Callers |-> Unset]
  /\ served = [p \in Callers |-> "none"]
  /\ scans = 0
  /\ stores = 0
  /\ first_result = Unset
  /\ aborted = FALSE

-----------------------------------------------------------------------------
(* SpecScan: graph construction in a single thread, one call at a time,    *)
(* over every bounded list of matching files.                              *)

InitScan ==
  /\ files \in FileSystems(MaxFiles, MaxRecords)
  /\ single_thread = TRUE
  /\ InitCallers
  /\ FLAGS = DefaultFlags
  /\ weight_table = [l \in Labels |-> Unit]
  /\ InitPipelineIdle

NextScan ==
  \E p \in Callers :
    \/ Call(p)
    \/ Acquire(p)
    \/ Lookup(p)
    \/ Scan(p)
    \/ Store(p)
    \/ Continue(p)

SpecScan == InitScan /\ [][NextScan]_vars

-----------------------------------------------------------------------------
(* SpecMemo: the callers run concurrently and the files change.            *)

InitMemo ==
  /\ files \in FileSystems(MemoMaxFiles, MemoMaxRecords)
  /\ single_thread = FALSE
  /\ InitCallers
  /\ FLAGS = DefaultFlags
  /\ weight_table = [l \in Labels |-> Unit]
  /\ InitPipelineIdle

NextMemo ==
  \/ \E p \in Callers :
       \/ Call(p)
       \/ Acquire(p)
       \/ Lookup(p)
       \/ Scan(p)
       \/ Store(p)
       \/ Continue(p)
  \/ ChangeFiles

SpecMemo == InitMemo /\ [][NextMemo]_vars

-----------------------------------------------------------------------------
(* SpecShift: _augment_shift on sample patches of several shapes, for      *)
(* every shift probability from -1 to 2.                                   *)

\* the state once the dimensions have been read and memoized
InitDimensionsRead ==
  /\ \E example \in {RecordA, RecordB} :
       /\ files = <<<<example>>>>
       /\ cache = read_patch_dimensions(<<<<example>>>>)
       /\ first_result = read_patch_dimensions(<<<<example>>>>)
  /\ guard = NoHolder
  /\ pc = [p \in Callers |-> "idle"]
  /\ ret = [p \in Callers |-> Unset]
  /\ served = [p \in Callers |-> "none"]
  /\ scans = 1
  /\ stores = 1
  /\ aborted = FALSE
  /\ single_thread = TRUE

InitShift ==
  /\ InitDimensionsRead
  /\ \E shift_prob \in (0 - RandSteps)..(2 * RandSteps) :
       FLAGS = [DefaultFlags EXCEPT !.augmentation_x_shift_probability = shift_prob]
  /\ weight_table = [l \in Labels |-> Unit]
  /\ InitPipelineIdle

NextShift ==
  \/ AugmentShift
  \/ Consume

SpecShift == InitShift /\ [][NextShift]_vars

-----------------------------------------------------------------------------
(* SpecPipeline: train_and_evaluate, then records through the training and *)
(* evaluation parsers and requests through the serving receiver.           *)

InitPipeline ==
  /\ InitDimensionsRead
  /\ FLAGS \in [use_included_label_weight : BOOLEAN,
                augmentation_x_shift_probability : ShiftProbabilities,
                augmentation_max_rotation_degrees : {0, DefaultMaxRotationDegrees},
                eval_throttle_secs : {DefaultEvalThrottleSecs},
                train_max_steps : {0, DefaultTrainMaxSteps}]
  /\ weight_table \in {[l \in Labels |-> Unit],
                       [l \in Labels |-> IF l = 0 THEN Unit ELSE Unit + Unit \div 2]}
  /\ InitPipelineIdle

NextPipeline ==
  \/ train_and_evaluate
  \/ \E pl \in {"train", "eval"} : ReadRecord(pl)
  \/ Parser
  \/ \E alternative \in {"example", "patch"} : serving_fn(alternative)
  \/ Consume

SpecPipeline == InitPipeline /\ [][NextPipeline]_vars

-----------------------------------------------------------------------------
(* Properties of the dimension reader.                                     *)

\* caller p's call ran the scan and the scan has ended, by a return or a raise
ScanEnded(p) ==
  /\ served[p] = "scan"
  /\ pc[p] \in {"returned", "raised"}
  /\ ret[p].kind # "TypeError"

\* the record parses and carries a height and a width value
IsGood(record) == record.parses /\ record.height # <<>> /\ record.width # <<>>

DimsOf(record) == Tuple(record.height[1], record.width[1])

RECURSIVE FirstGood(_)
FirstGood(recs) == IF IsGood(Head(recs)) THEN Head(recs) ELSE FirstGood(Tail(recs))

\* C1: when the glob matches no file, or only empty files, the call of
\* read_patch_dimensions raises and hands no value to its caller.
C1_RaisesWithoutRecord ==
  \A p \in Callers :
    (ScanEnded(p) /\ Flatten(files) = <<>>) => IsRaise(ret[p])

\* C4 as claimed: records that do not parse or lack height or width are
\* skipped, and the call returns the dimensions of the first record in scan
\* order that parses and carries both fields, whenever such a record exists.
C4_SkipsBadRecords ==
  \A p \in Callers :
    (ScanEnded(p) /\ \E i \in 1..Len(Flatten(files)) : IsGood(Flatten(files)[i]))
      => ret[p] = DimsOf(FirstGood(Flatten(files)))

\* C4 amended: empty files are skipped, and the first record in scan order
\* alone decides the call: its dimensions are returned when it parses and
\* carries both fields, and otherwise the call raises (DecodeError or
\* IndexError) without looking at any later record.
C4_FirstRecordDecides ==
  \A p \in Callers :
    (ScanEnded(p) /\ Flatten(files) # <<>>)
      => LET record == Flatten(files)[1] IN
           IF IsGood(record)
           THEN ret[p] = DimsOf(record)
           ELSE ret[p].kind \in {"DecodeError", "IndexError"}

\* an empty first file was skipped and the next file's first record returned
C4_Witness ==
  \E p \in Callers :
    /\ ScanEnded(p)
    /\ Len(files) = 2 /\ files[1] = <<>>
    /\ ret[p].kind = "tuple"

\* C5: once a call has returned (H, W), no later step scans the files and
\* every call that returns afterwards returns that same (H, W), whatever
\* the files have become.
C5_CachedAfterFirstCall ==
  [][first_result.kind = "tuple" =>
       /\ scans' = scans
       /\ \A p \in Callers :
            (pc[p] # "returned" /\ pc'[p] = "returned") => ret'[p] = first_result]_vars

\* a call answered from the cache with a value the files no longer yield
C5_Witness ==
  \E p \in Callers :
    /\ pc[p] = "returned" /\ served[p] = "cache"
    /\ ret[p].kind = "tuple"
    /\ read_patch_dimensions(files) # ret[p]

\* C10: under every interleaving of concurrent first calls, at most one
\* caller is inside the memoized call, the scan runs at most once, the cache
\* is populated at most once, and all callers hold the same value.
C10_PopulatedOnce ==
  /\ Cardinality({p \in Callers : pc[p] \in {"lookup", "scanning", "storing"}}) <= 1
  /\ scans <= 1
  /\ stores <= 1
  /\ \A p, q \in Callers :
       (pc[p] = "returned" /\ pc[q] = "returned") => ret[p] = ret[q]

\* two first calls overlap: one has scanned and is about to populate the
\* cache while the other, called before the cache was populated, waits
C10_Witness ==
  \E p, q \in Callers :
    /\ pc[p] = "storing" /\ ret[p].kind = "tuple"
    /\ pc[q] = "waiting"
    /\ cache = Unset

-----------------------------------------------------------------------------
(* Properties of the augmentation, the parser and the wiring.              *)

ShiftApplied == pipeline = "shift" /\ stage = "emitted"

\* the parser of the training or evaluation input has emitted an example
ParserEmitted ==
  /\ pipeline \in {"train", "eval"}
  /\ stage = "emitted"
  /\ emitted.status = "ok"

\* a probability clamped to [0, 1]
Clamp01(prob) == IF prob < 0 THEN 0 ELSE IF prob > RandSteps THEN RandSteps ELSE prob

\* C2: with r the draw and p = min(1, p_shift), the call takes shift-left iff
\* r < p/2, shift-right iff p/2 <= r < p, identity iff r >= p, for every
\* p_shift from -1 to 2; so the patch is shifted exactly when r is below
\* p_shift clamped to [0, 1].
C2_OneBranchByDraw ==
  ShiftApplied =>
    LET r == emitted.rand
        prob == Min(RandSteps, FLAGS.augmentation_x_shift_probability)
    IN  /\ emitted.branch \in {"shift_left", "shift_right", "identity"}
        /\ emitted.branch = "shift_left" <=> 2 * r < prob
        /\ emitted.branch = "shift_right" <=> (prob <= 2 * r /\ r < prob)
        /\ emitted.branch = "identity" <=> r >= prob
        /\ emitted.branch # "identity"
             <=> r < Clamp01(FLAGS.augmentation_x_shift_probability)

\* a shift to the right drawn under a shift probability above 1
C2_Witness ==
  /\ ShiftApplied
  /\ FLAGS.augmentation_x_shift_probability > RandSteps
  /\ emitted.branch = "shift_right"

\* C3: the shifted patch has the shape of the input; after a shift left its
\* columns 0..W-2 are the input's columns 1..W-1 and its last column is the
\* input's last column; after a shift right its column 0 is the input's
\* column 0 and its columns 1..W-1 are the input's columns 0..W-2; every
\* output pixel is a value of the input.
C3_ShiftReplicatesEdge ==
  (ShiftApplied /\ emitted.branch # "identity") =>
    LET in == current_record.patch
        out == emitted.shifted
        H == Len(in)
        W == Len(in[1])
    IN  /\ Len(out) = H
        /\ \A i \in 1..H :
             /\ Len(out[i]) = W
             /\ emitted.branch = "shift_left" =>
                  /\ \A j \in 1..(W - 1) : out[i][j] = in[i][j + 1]
                  /\ out[i][W] = in[i][W]
             /\ emitted.branch = "shift_right" =>
                  /\ out[i][1] = in[i][1]
                  /\ \A j \in 2..W : out[i][j] = in[i][j - 1]
             /\ \A j \in 1..W : \E k \in 1..W : out[i][j] = in[i][k]

\* a shift left of a three-column patch whose columns all differ and hold no 0
C3_Witness ==
  /\ ShiftApplied
  /\ emitted.branch = "shift_left"
  /\ Shape(current_record.patch) = <<1, 3>>
  /\ current_record.patch[1][1] # current_record.patch[1][2]
  /\ current_record.patch[1][2] # current_record.patch[1][3]
  /\ current_record.patch[1][3] # 0

\* C6: the emitted label is the record's label, and the emitted weight is
\* weights_from_labels(label), multiplied by the record's label_weight when
\* use_included_label_weight is on; the draws of the augmentation change
\* neither.
C6_WeightFromLabel ==
  ParserEmitted =>
    /\ emitted.label = current_record.label
    /\ emitted.weight =
         IF FLAGS.use_included_label_weight
         THEN FMul(weight_table[current_record.label], current_record.label_weight[1])
         ELSE weight_table[current_record.label]

\* an augmented example whose included weight is not 1.0, with the flag on
C6_Witness ==
  /\ ParserEmitted
  /\ FLAGS.use_included_label_weight
  /\ current_record.label_weight[1] # Unit
  /\ weight_table[current_record.label] # Unit
  /\ emitted.branch # "identity"

IdentityFlags ==
  /\ FLAGS.augmentation_x_shift_probability = 0
  /\ FLAGS.augmentation_max_rotation_degrees = 0

Abs(x) == IF x < 0 THEN 0 - x ELSE x

\* C7 as claimed: with p_shift = 0 and theta_max = 0 the emitted patch
\* equals the stored patch value for value, whatever the two draws.
C7_IdentityValueForValue ==
  (ParserEmitted /\ IdentityFlags) => emitted.patch = current_record.patch

\* C7 amended: with p_shift = 0 and theta_max = 0 the emitted patch has the
\* stored patch's shape and, for pixel values in [0, 1], every emitted value
\* is within half the float spacing just below 1.0 of the stored value, and
\* equal to it when the stored value is a multiple of that spacing.
C7_IdentityUpToRounding ==
  (ParserEmitted /\ IdentityFlags) =>
    LET in == current_record.patch
        out == emitted.patch
    IN  /\ Len(out) = Len(in)
        /\ \A i \in 1..Len(in) :
             /\ Len(out[i]) = Len(in[i])
             /\ \A j \in 1..Len(in[i]) :
                  /\ 2 * Abs(out[i][j] - in[i][j]) <= SpacingBelowOne
                  /\ in[i][j] % SpacingBelowOne = 0 => out[i][j] = in[i][j]

\* an example through the identity augmentation whose pixel came out rounded
C7_Witness ==
  /\ ParserEmitted
  /\ IdentityFlags
  /\ emitted.patch # Unknown
  /\ emitted.patch # current_record.patch

\* C8: the step cap handed to the training driver is train_max_steps when
\* that is positive and 'no limit' when it is 0.
C8_ZeroMeansNoLimit ==
  wiring.wired =>
    wiring.max_steps = IF FLAGS.train_max_steps = 0
                       THEN NoStepCap
                       ELSE StepCap(FLAGS.train_max_steps)

\* the two patches have one shape and agree pixel by pixel within the
\* rounding of the inversion round trip
SameUpToRounding(in, out) ==
  /\ Len(out) = Len(in)
  /\ \A i \in 1..Len(in) :
       /\ Len(out[i]) = Len(in[i])
       /\ \A j \in 1..Len(in[i]) : 2 * Abs(out[i][j] - in[i][j]) <= SpacingBelowOne

\* C9: a patch delivered by the serving receiver or by the evaluation input
\* reaches the model with its parsed values, untouched by shift and
\* rotation (read generously: a difference within the rounding of C7 is not
\* counted as a change).
C9_AugmentationTrainingOnly ==
  (pipeline \in {"eval", "serving"} /\ stage = "emitted" /\ emitted.status = "ok") =>
    /\ emitted.patch # Unknown
    /\ SameUpToRounding(current_record.patch, emitted.patch)

====
